---- MODULE Spec2Model ----
(***************************************************************************)
(* Model of the ICS timezone proxy (server.ts): the line unfolder/folder,  *)
(* the date-time rewriter, the VTIMEZONE integration, the VEVENT           *)
(* normalizer and the document pipeline transformIcs.                      *)
(*                                                                         *)
(* Text is modelled as it is in the program: a string is a sequence of     *)
(* one-character strings, so every regular expression, split, slice and    *)
(* comparison of the source is computed on characters.  Indices are        *)
(* 1-based; 0 stands for JavaScript's -1 ("not found").  The empty tuple   *)
(* stands for undefined/null where the source distinguishes it.            *)
(***************************************************************************)
EXTENDS Integers, Sequences, FiniteSets, TLC

VARIABLES
    line,                \* transformDateTimeLine: the line argument
    opts,                \* transformDateTimeLine: the TransformOptions argument
    result,              \* transformDateTimeLine: the returned line
    ics,                 \* transformIcs: the raw document text
    targetTz,            \* transformIcs: the target zone identifier
    overrideExistingTz,  \* transformIcs: the override flag
    lines,               \* transformIcs: const lines (unfolded input)
    transformed,         \* transformIcs: let transformed, as lines.map returns it
    fixed,               \* transformIcs: const fixed (after VTIMEZONE, PRODID, fixVEventStructure)
    out,                 \* transformIcs: the returned text
    round,               \* the number of transforms done on the document so far
    pc,                  \* position of the call: "call" before, "return" after
    reqs                 \* GET /calendar.ics: the requests in progress, each with the
                         \* constants of its handler invocation and its response

vars == <<line, opts, result, ics, targetTz, overrideExistingTz, lines,
          transformed, fixed, out, round, pc, reqs>>

-----------------------------------------------------------------------------
(* JavaScript string primitives *)

LowerLetters == <<"a","b","c","d","e","f","g","h","i","j","k","l","m","n","o","p","q","r","s","t","u","v","w","x","y","z">>
UpperLetters == <<"A","B","C","D","E","F","G","H","I","J","K","L","M","N","O","P","Q","R","S","T","U","V","W","X","Y","Z">>
Digits == <<"0","1","2","3","4","5","6","7","8","9">>

LowerSet == {LowerLetters[i] : i \in 1..26}
UpperSet == {UpperLetters[i] : i \in 1..26}
DigitSet == {Digits[i] : i \in 1..10}

IsLower(c) == c \in LowerSet
IsUpper(c) == c \in UpperSet
IsDigit(c) == c \in DigitSet

\* the upper-case letter of every lower-case letter
UpperOf == [c \in LowerSet |-> UpperLetters[CHOOSE i \in 1..26 : LowerLetters[i] = c]]

\* the value of every digit
DigitValue == [c \in DigitSet |-> (CHOOSE i \in 1..10 : Digits[i] = c) - 1]

ToUpperChar(c) == IF c \in LowerSet THEN UpperOf[c] ELSE c

toUpperCase(s) == [i \in 1..Len(s) |-> ToUpperChar(s[i])]

startsWith(s, p) == Len(s) >= Len(p) /\ SubSeq(s, 1, Len(p)) = p

\* s.toUpperCase().startsWith(p): only the first Len(p) characters decide
upperStartsWith(s, p) == Len(s) >= Len(p) /\ toUpperCase(SubSeq(s, 1, Len(p))) = p

\* s.toUpperCase() === p
upperEquals(s, p) == Len(s) = Len(p) /\ toUpperCase(s) = p

endsWith(s, p) == Len(s) >= Len(p) /\ SubSeq(s, Len(s) - Len(p) + 1, Len(s)) = p

\* s.slice(from) with a 1-based first index
SliceFrom(s, from) == SubSeq(s, from, Len(s))

MinOf(S) == CHOOSE x \in S : \A y \in S : x <= y

\* s.indexOf(c) for a one-character c, searching from position from; 0 when absent
indexOfFrom(s, c, from) ==
    LET hits == {i \in from..Len(s) : s[i] = c}
    IN  IF hits = {} THEN 0 ELSE MinOf(hits)

indexOf(s, c) == indexOfFrom(s, c, 1)

\* s.includes(sub)
includes(s, sub) ==
    \E i \in 1..(Len(s) - Len(sub) + 1) : SubSeq(s, i, i + Len(sub) - 1) = sub

\* s.split(c) for a one-character separator c: the pieces between the
\* occurrences of c, in order
split(s, c) ==
    LET cuts  == {i \in 1..Len(s) : s[i] = c}
        n     == Cardinality(cuts)
        \* the k-th occurrence of c; 0 before the first, Len(s) + 1 after the last
        cut(k) == IF k = 0 THEN 0
                  ELSE IF k > n THEN Len(s) + 1
                  ELSE CHOOSE i \in cuts : Cardinality({j \in cuts : j < i}) = k - 1
    IN  [k \in 1..(n + 1) |-> SubSeq(s, cut(k - 1) + 1, cut(k) - 1)]

\* parts.join(sep)
RECURSIVE join(_, _)
join(parts, sep) ==
    IF Len(parts) = 0 THEN <<>>
    ELSE IF Len(parts) = 1 THEN parts[1]
    ELSE parts[1] \o sep \o join(Tail(parts), sep)

\* [...a, ...b, ...] for an array of arrays
RECURSIVE Flatten(_)
Flatten(seqs) == IF Len(seqs) = 0 THEN <<>> ELSE seqs[1] \o Flatten(Tail(seqs))

\* array.findIndex(pred), hits being the indices whose element satisfies
\* pred; 0 when no element satisfies pred
findIndex(hits) == IF hits = {} THEN 0 ELSE MinOf(hits)

\* the regular-expression class \s restricted to the characters of the model
IsSpace(c) == c \in {" ", "\t", "\n", "\r"}

\* the regular-expression class \w
IsWordChar(c) == IsLower(c) \/ IsUpper(c) \/ IsDigit(c) \/ c = "_"

-----------------------------------------------------------------------------
(* isLikelyIana and mapWindowsToIana *)

\* /\w+\/[-_A-Za-z0-9+]+/.test(name): a slash with a word character before it
\* and a character of the class after it, anywhere in the name
isLikelyIana(name) ==
    \E i \in 2..(Len(name) - 1) :
        /\ name[i] = "/"
        /\ IsWordChar(name[i - 1])
        /\ (IsWordChar(name[i + 1]) \/ name[i + 1] \in {"-", "+"})

\* the mapping table, as <<windows name, IANA name>> pairs
mapping ==
    << <<<<"W","."," ","E","u","r","o","p","e"," ","S","t","a","n","d","a","r","d"," ","T","i","m","e">>, <<"E","u","r","o","p","e","/","Z","u","r","i","c","h">>>>,
       <<<<"R","o","m","a","n","c","e"," ","S","t","a","n","d","a","r","d"," ","T","i","m","e">>, <<"E","u","r","o","p","e","/","Z","u","r","i","c","h">>>>,
       <<<<"C","e","n","t","r","a","l"," ","E","u","r","o","p","e"," ","S","t","a","n","d","a","r","d"," ","T","i","m","e">>, <<"E","u","r","o","p","e","/","Z","u","r","i","c","h">>>>,
       <<<<"C","e","n","t","r","a","l"," ","E","u","r","o","p","e","a","n"," ","S","t","a","n","d","a","r","d"," ","T","i","m","e">>, <<"E","u","r","o","p","e","/","Z","u","r","i","c","h">>>>,
       <<<<"G","M","T"," ","S","t","a","n","d","a","r","d"," ","T","i","m","e">>, <<"E","u","r","o","p","e","/","L","o","n","d","o","n">>>>,
       <<<<"E","."," ","E","u","r","o","p","e"," ","S","t","a","n","d","a","r","d"," ","T","i","m","e">>, <<"E","u","r","o","p","e","/","B","u","c","h","a","r","e","s","t">>>>,
       <<<<"R","u","s","s","i","a","n"," ","S","t","a","n","d","a","r","d"," ","T","i","m","e">>, <<"E","u","r","o","p","e","/","M","o","s","c","o","w">>>>,
       <<<<"E","a","s","t","e","r","n"," ","S","t","a","n","d","a","r","d"," ","T","i","m","e">>, <<"A","m","e","r","i","c","a","/","N","e","w","_","Y","o","r","k">>>>,
       <<<<"C","e","n","t","r","a","l"," ","S","t","a","n","d","a","r","d"," ","T","i","m","e">>, <<"A","m","e","r","i","c","a","/","C","h","i","c","a","g","o">>>>,
       <<<<"M","o","u","n","t","a","i","n"," ","S","t","a","n","d","a","r","d"," ","T","i","m","e">>, <<"A","m","e","r","i","c","a","/","D","e","n","v","e","r">>>>,
       <<<<"P","a","c","i","f","i","c"," ","S","t","a","n","d","a","r","d"," ","T","i","m","e">>, <<"A","m","e","r","i","c","a","/","L","o","s","_","A","n","g","e","l","e","s">>>> >>

mapWindowsToIana(windowsTz) ==
    IF \E i \in 1..Len(mapping) : mapping[i][1] = windowsTz
    THEN mapping[CHOOSE i \in 1..Len(mapping) : mapping[i][1] = windowsTz][2]
    ELSE windowsTz

-----------------------------------------------------------------------------
(* The calendar and the zones of luxon's DateTime, as far as the program   *)
(* uses them: fromFormat, setZone, toFormat, isValid.  An instant is a     *)
(* number of seconds since 1970-01-01T00:00:00Z on the proleptic Gregorian *)
(* calendar.                                                               *)

IsLeap(y) == (y % 4 = 0 /\ y % 100 # 0) \/ y % 400 = 0

DaysInMonth(y, m) ==
    IF m = 2 THEN (IF IsLeap(y) THEN 29 ELSE 28)
    ELSE IF m \in {4, 6, 9, 11} THEN 30 ELSE 31

\* days from 1970-01-01 to the civil date y-m-d (y >= 1)
DaysFromCivil(y, m, d) ==
    LET yy  == IF m <= 2 THEN y - 1 ELSE y
        era == yy \div 400
        yoe == yy - era * 400
        mp  == IF m > 2 THEN m - 3 ELSE m + 9
        doy == (153 * mp + 2) \div 5 + d - 1
        doe == yoe * 365 + yoe \div 4 - yoe \div 100 + doy
    IN  era * 146097 + doe - 719468

\* the civil date <<y, m, d>> from the era, the year of the era yoe and the
\* day of the year doy (counted from March 1)
CivilOfYear(era, yoe, doy, mp) ==
    <<yoe + era * 400 + (IF mp < 10 THEN 0 ELSE 1),
      IF mp < 10 THEN mp + 3 ELSE mp - 9,
      doy - (153 * mp + 2) \div 5 + 1>>

CivilOfEra(era, yoe, doy) == CivilOfYear(era, yoe, doy, (5 * doy + 2) \div 153)

CivilOfDoe(era, doe, yoe) ==
    CivilOfEra(era, yoe, doe - (365 * yoe + yoe \div 4 - yoe \div 100))

CivilOfShifted(zz, era) ==
    CivilOfDoe(era, zz - era * 146097,
               ((zz - era * 146097) - (zz - era * 146097) \div 1460
                + (zz - era * 146097) \div 36524
                - (zz - era * 146097) \div 146096) \div 365)

\* the civil date of a day number, as <<y, m, d>>
CivilFromDays(z) == CivilOfShifted(z + 719468, (z + 719468) \div 146097)

\* seconds of the wall-clock reading y-m-d h:mi:s counted as if it were UTC
LocalSeconds(y, m, d, h, mi, s) ==
    DaysFromCivil(y, m, d) * 86400 + h * 3600 + mi * 60 + s

\* The zones the model knows, a slice of the tz database for the year 2024:
\* <<name, standard offset, daylight offset, start of daylight time, end of
\* daylight time>>, offsets in seconds east of UTC, instants in seconds since
\* 1970 (UTC).  A zone without daylight time has equal offsets.  The instants
\* of the model lie between the 2023 end and the 2025 start of daylight time.
\*   1711846800 = 2024-03-31T01:00:00Z    1729990800 = 2024-10-27T01:00:00Z
\*   1710054000 = 2024-03-10T07:00:00Z    1730613600 = 2024-11-03T06:00:00Z
ZoneTable ==
    << <<<<"E","u","r","o","p","e","/","Z","u","r","i","c","h">>, 3600, 7200, 1711846800, 1729990800>>,
       <<<<"E","u","r","o","p","e","/","L","o","n","d","o","n">>, 0, 3600, 1711846800, 1729990800>>,
       <<<<"E","u","r","o","p","e","/","B","u","c","h","a","r","e","s","t">>, 7200, 10800, 1711846800, 1729990800>>,
       <<<<"E","u","r","o","p","e","/","M","o","s","c","o","w">>, 10800, 10800, 0, 0>>,
       <<<<"A","m","e","r","i","c","a","/","N","e","w","_","Y","o","r","k">>, -18000, -14400, 1710054000, 1730613600>>,
       <<<<"A","m","e","r","i","c","a","/","C","h","i","c","a","g","o">>, -21600, -18000, 1710057600, 1730617200>>,
       <<<<"A","m","e","r","i","c","a","/","D","e","n","v","e","r">>, -25200, -21600, 1710061200, 1730620800>>,
       <<<<"A","m","e","r","i","c","a","/","L","o","s","_","A","n","g","e","l","e","s">>, -28800, -25200, 1710064800, 1730624400>>,
       <<<<"E","t","c","/","G","M","T","+","1">>, -3600, -3600, 0, 0>>,
       <<<<"E","t","c","/","G","M","T","+","1","0">>, -36000, -36000, 0, 0>>,
       <<<<"U","T","C">>, 0, 0, 0, 0>> >>

\* the row of ZoneTable that holds the zone called name; 0 when there is none
ZoneRow(table, name) ==
    IF \E i \in 1..Len(table) : table[i][1] = name
    THEN CHOOSE i \in 1..Len(table) : table[i][1] = name
    ELSE 0

\* luxon normalizeZone: "utc" and "gmt" in any case are UTC, any other name
\* is looked up in the tz database; 0 for a name that resolves to no zone
NormalizeZone(name) ==
    ZoneRow(ZoneTable, IF toUpperCase(name) \in {<<"U","T","C">>, <<"G","M","T">>} THEN <<"U","T","C">> ELSE name)

\* the offset at instant ts of the zone described by row
RowOffset(row, ts) == IF row[4] <= ts /\ ts < row[5] THEN row[3] ELSE row[2]

\* zone.offset(ts): the offset of zone row z at instant ts
ZoneOffset(z, ts) == RowOffset(ZoneTable[z], ts)

\* luxon fixOffset, after the first guess utcGuess = localTS - o gave offset o2
\* and the second guess utcGuess2 = utcGuess - (o2 - o) gave offset o3
FixOffsetEnd(localTS, o, o2, o3, utcGuess, utcGuess2) ==
    IF o = o2 THEN utcGuess
    ELSE IF o2 = o3 THEN utcGuess2
    ELSE localTS - (IF o2 < o3 THEN o2 ELSE o3)

FixOffsetSecond(localTS, z, o, o2, utcGuess) ==
    FixOffsetEnd(localTS, o, o2, ZoneOffset(z, utcGuess - (o2 - o)),
                 utcGuess, utcGuess - (o2 - o))

\* luxon fixOffset(localTS, o, zone): the instant of a wall-clock reading in
\* zone row z, o being the offset guessed first; a reading in a gap or an
\* overlap of the zone is settled as luxon does
fixOffset(localTS, o, z) ==
    FixOffsetSecond(localTS, z, o, ZoneOffset(z, localTS - o), localTS - o)

\* luxon objToTS: the first guess is the zone's offset now, taken to be its
\* standard offset
ObjToTS(localTS, z) == fixOffset(localTS, ZoneTable[z][2], z)

\* the format strings of the program, as luxon tokens
FmtSeconds == <<"yyyy", "LL", "dd", "'T'", "HH", "mm", "ss">>
FmtMinutes == <<"yyyy", "LL", "dd", "'T'", "HH", "mm">>

TokenWidth(tok) == IF tok = "yyyy" THEN 4 ELSE IF tok = "'T'" THEN 1 ELSE 2

RECURSIVE FmtWidth(_)
FmtWidth(fmt) == IF Len(fmt) = 0 THEN 0 ELSE TokenWidth(fmt[1]) + FmtWidth(Tail(fmt))

\* the value of a sequence of digits
RECURSIVE NumberOf(_)
NumberOf(ds) ==
    IF Len(ds) = 0 THEN 0
    ELSE NumberOf(SubSeq(ds, 1, Len(ds) - 1)) * 10
         + DigitValue[ds[Len(ds)]]

\* n written with exactly w digits
RECURSIVE PadDigits(_, _)
PadDigits(n, w) ==
    IF w = 0 THEN <<>> ELSE PadDigits(n \div 10, w - 1) \o <<Digits[(n % 10) + 1]>>

\* the text of token k of fmt within text (the tokens have fixed widths)
TokenText(text, fmt, k) ==
    LET start == FmtWidth(SubSeq(fmt, 1, k - 1))
    IN  SubSeq(text, start + 1, start + TokenWidth(fmt[k]))

\* whether text matches fmt: the right length, digits under every numeric
\* token and the literal T in its place
MatchesFormat(text, fmt) ==
    /\ Len(text) = FmtWidth(fmt)
    /\ \A k \in 1..Len(fmt) :
          LET t == TokenText(text, fmt, k)
          IN  IF fmt[k] = "'T'" THEN t = <<"T">>
              ELSE \A i \in 1..Len(t) : IsDigit(t[i])

FieldOf(text, fmt, tok) ==
    IF \E k \in 1..Len(fmt) : fmt[k] = tok
    THEN NumberOf(TokenText(text, fmt, CHOOSE k \in 1..Len(fmt) : fmt[k] = tok))
    ELSE 0

\* luxon's range check of the parsed fields (hour 24 is accepted at 24:00:00)
ValidFields(y, m, d, h, mi, s) ==
    /\ m \in 1..12
    /\ d >= 1 /\ d <= DaysInMonth(y, m)
    /\ (h \in 0..23 \/ (h = 24 /\ mi = 0 /\ s = 0))
    /\ mi \in 0..59
    /\ s \in 0..59

InvalidDateTime == [isValid |-> FALSE, ts |-> 0, zone |-> 0]

\* the DateTime of parsed fields in zone row z
FromFields(y, m, d, h, mi, s, z) ==
    IF ~ValidFields(y, m, d, h, mi, s) THEN InvalidDateTime
    ELSE [isValid |-> TRUE, ts |-> ObjToTS(LocalSeconds(y, m, d, h, mi, s), z), zone |-> z]

FromFormatIn(text, fmt, z) ==
    IF z = 0 \/ ~MatchesFormat(text, fmt) THEN InvalidDateTime
    ELSE FromFields(FieldOf(text, fmt, "yyyy"), FieldOf(text, fmt, "LL"),
                    FieldOf(text, fmt, "dd"), FieldOf(text, fmt, "HH"),
                    FieldOf(text, fmt, "mm"), FieldOf(text, fmt, "ss"), z)

\* DateTime.fromFormat(text, fmt, { zone })
fromFormat(text, fmt, zone) == FromFormatIn(text, fmt, NormalizeZone(zone))

SetZoneTo(dt, z) ==
    IF ~dt.isValid \/ z = 0 THEN InvalidDateTime
    ELSE [isValid |-> TRUE, ts |-> dt.ts, zone |-> z]

\* dt.setZone(zone): the same instant read in another zone
setZone(dt, zone) == SetZoneTo(dt, NormalizeZone(zone))

\* the digits of one token for the civil date ymd and the second of the day secs
FormatToken(tok, ymd, secs) ==
    CASE tok = "yyyy" -> PadDigits(ymd[1], 4)
      [] tok = "LL"   -> PadDigits(ymd[2], 2)
      [] tok = "dd"   -> PadDigits(ymd[3], 2)
      [] tok = "'T'"  -> <<"T">>
      [] tok = "HH"   -> PadDigits(secs \div 3600, 2)
      [] tok = "mm"   -> PadDigits((secs % 3600) \div 60, 2)
      [] tok = "ss"   -> PadDigits(secs % 60, 2)

\* the text of the wall-clock reading ls (local seconds) in format fmt
FormatLocal(ls, fmt) ==
    Flatten([k \in 1..Len(fmt) |->
                FormatToken(fmt[k], CivilFromDays(ls \div 86400), ls % 86400)])

\* dt.toFormat(fmt); an invalid DateTime formats as the text below
toFormat(dt, fmt) ==
    IF ~dt.isValid THEN <<"I","n","v","a","l","i","d"," ","D","a","t","e","T","i","m","e">>
    ELSE FormatLocal(dt.ts + ZoneOffset(dt.zone, dt.ts), fmt)

-----------------------------------------------------------------------------
(* transformDateTimeLine and its helpers *)

\* the property names of the two regular expressions, in their order
DateTimeProps == <<<<"D","T","S","T","A","R","T">>, <<"D","T","E","N","D">>, <<"R","E","C","U","R","R","E","N","C","E","-","I","D">>, <<"E","X","D","A","T","E">>>>

\* the length of the property name (DTSTART|DTEND|RECURRENCE-ID|EXDATE) that
\* line starts with, in any letter case; 0 when it starts with none
PropLength(ln) ==
    LET upper == toUpperCase(SubSeq(ln, 1, IF Len(ln) < 13 THEN Len(ln) ELSE 13))
        hits  == {k \in 1..Len(DateTimeProps) : startsWith(upper, DateTimeProps[k])}
    IN  IF hits = {} THEN 0 ELSE Len(DateTimeProps[MinOf(hits)])

\* /^(DTSTART|DTEND|RECURRENCE-ID|EXDATE);[^:]*VALUE=DATE:/i.test(line)
isAllDay(ln) ==
    LET n == PropLength(ln)
        c == indexOfFrom(ln, ":", n + 2)
    IN  /\ n > 0
        /\ Len(ln) > n
        /\ ln[n + 1] = ";"
        /\ c > 0
        /\ endsWith(toUpperCase(SubSeq(ln, n + 2, c - 1)), <<"V","A","L","U","E","=","D","A","T","E">>)

\* params.match(/TZID=([^;:]+)/i)?.[1]; the empty tuple for undefined
extractExistingTzid(params) ==
    LET hits == {i \in 1..(Len(params) - 5) :
                    /\ toUpperCase(SubSeq(params, i, i + 4)) = <<"T","Z","I","D","=">>
                    /\ params[i + 5] \notin {";", ":"}}
    IN  IF hits = {} THEN <<>>
        ELSE LET i    == MinOf(hits)
                 stop == {j \in (i + 5)..Len(params) : params[j] \in {";", ":"}}
             IN  SubSeq(params, i + 5,
                        IF stop = {} THEN Len(params) ELSE MinOf(stop) - 1)

\* line.match(/^(DTSTART|DTEND|RECURRENCE-ID|EXDATE)(;[^:]+)?:([^\r\n]+)$/i):
\* m is FALSE for null; params is the empty tuple when group 2 did not take part
MatchDateTimeLine(ln) ==
    LET n      == PropLength(ln)
        colon  == IF n > 0 /\ Len(ln) > n /\ ln[n + 1] = ";"
                  THEN indexOfFrom(ln, ":", n + 2)
                  ELSE IF n > 0 /\ Len(ln) > n /\ ln[n + 1] = ":" THEN n + 1
                  ELSE 0
        value  == SliceFrom(ln, colon + 1)
    IN  IF /\ colon > 0
           /\ colon # n + 2
           /\ Len(value) > 0
           /\ \A i \in 1..Len(value) : value[i] \notin {"\r", "\n"}
        THEN [m |-> TRUE, prop |-> SubSeq(ln, 1, n),
              params |-> SubSeq(ln, n + 1, colon - 1), value |-> value]
        ELSE [m |-> FALSE, prop |-> <<>>, params |-> <<>>, value |-> <<>>]

\* value.replace("Z", ""): the first Z is removed
ReplaceFirstZ(value) ==
    LET i == indexOf(value, "Z")
    IN  IF i = 0 THEN value ELSE SubSeq(value, 1, i - 1) \o SliceFrom(value, i + 1)

\* /T\d{6}$/.test(dtBasic)
HasSeconds(dtBasic) ==
    /\ Len(dtBasic) >= 7
    /\ dtBasic[Len(dtBasic) - 6] = "T"
    /\ \A i \in (Len(dtBasic) - 5)..Len(dtBasic) : IsDigit(dtBasic[i])

IsTzidPart(kv) == upperStartsWith(kv, <<"T","Z","I","D","=">>)

\* parts.filter((kv) => !kv.toUpperCase().startsWith("TZID="))
RECURSIVE FilterParts(_)
FilterParts(parts) ==
    IF Len(parts) = 0 THEN <<>>
    ELSE (IF IsTzidPart(parts[1]) THEN <<>> ELSE <<parts[1]>>) \o FilterParts(Tail(parts))

\* A faulty variant of buildParams that keeps the TZID parameters it finds
buildParamsKeepingTzid(p, inject) ==
    LET base  == IF Len(p) > 0 /\ p[1] = ";" THEN Tail(p) ELSE p
        parts == IF Len(base) > 0 THEN split(base, ";") ELSE <<>>
    IN  <<";">> \o join(<<inject>> \o parts, <<";">>)

\* the closure buildParams(p, inject)
buildParams(p, inject) ==
    LET base     == IF Len(p) > 0 /\ p[1] = ";" THEN Tail(p) ELSE p
        parts    == IF Len(base) > 0 THEN split(base, ";") ELSE <<>>
        filtered == FilterParts(parts)
    IN  <<";">> \o join(<<inject>> \o filtered, <<";">>)

\* the source zone of branch 2: the mapped name when it looks like an IANA
\* name, else "utc"
FromZone(mappedTz) == IF isLikelyIana(mappedTz) THEN mappedTz ELSE <<"u","t","c">>

\* Faulty variants of Converted, against which the properties of the
\* conversion are tried: the first leaves out setZone(targetTz), the second
\* leaves out the isValid test
ConvertedNoZone(ln, o, prop, newParams, fmt, dt) ==
    IF ~dt.isValid THEN ln
    ELSE prop \o newParams \o <<":">> \o toFormat(dt, fmt)

ConvertedUnchecked(ln, o, prop, newParams, fmt, dt) ==
    prop \o newParams \o <<":">> \o toFormat(setZone(dt, o.targetTz), fmt)

\* A faulty variant of Converted that leaves the Z at the end of the value
ConvertedKeepingZ(ln, o, prop, newParams, fmt, dt) ==
    IF ~dt.isValid THEN ln
    ELSE prop \o newParams \o <<":">> \o toFormat(setZone(dt, o.targetTz), fmt) \o <<"Z">>

\* the end of branches 1 and 2: dt is dtUtc or dtLocal
Converted(ln, o, prop, newParams, fmt, dt) ==
    IF ~dt.isValid THEN ln
    ELSE prop \o newParams \o <<":">> \o toFormat(setZone(dt, o.targetTz), fmt)

\* A faulty variant of Branches that converts a line with an existing TZID
\* whatever overrideExistingTz says
BranchesIgnoringOverride(ln, o, m, dtBasic, fmt, existingTz, newParams) ==
    IF endsWith(m.value, <<"Z">>)
    THEN Converted(ln, o, m.prop, newParams, fmt, fromFormat(dtBasic, fmt, <<"u","t","c">>))
    ELSE IF Len(existingTz) > 0
    THEN Converted(ln, o, m.prop, newParams, fmt,
                   fromFormat(dtBasic, fmt, FromZone(mapWindowsToIana(existingTz))))
    ELSE m.prop \o newParams \o <<":">> \o dtBasic

\* the three branches, with the values computed before them: m the match,
\* dtBasic, fmt, existingTz and the parameters rebuilt with the target TZID
Branches(ln, o, m, dtBasic, fmt, existingTz, newParams) ==
    IF endsWith(m.value, <<"Z">>)
    THEN Converted(ln, o, m.prop, newParams, fmt, fromFormat(dtBasic, fmt, <<"u","t","c">>))
    ELSE IF Len(existingTz) > 0
    THEN IF ~o.overrideExistingTz THEN ln
         ELSE Converted(ln, o, m.prop, newParams, fmt,
                        fromFormat(dtBasic, fmt, FromZone(mapWindowsToIana(existingTz))))
    ELSE m.prop \o newParams \o <<":">> \o dtBasic

WithBasic(ln, o, m, dtBasic) ==
    Branches(ln, o, m, dtBasic,
             IF HasSeconds(dtBasic) THEN FmtSeconds ELSE FmtMinutes,
             extractExistingTzid(m.params),
             buildParams(m.params, <<"T","Z","I","D","=">> \o o.targetTz))

WithMatch(ln, o, m) ==
    IF ~m.m THEN ln
    ELSE IF isAllDay(ln) THEN ln
    ELSE WithBasic(ln, o, m, ReplaceFirstZ(m.value))

transformDateTimeLine(ln, o) == WithMatch(ln, o, MatchDateTimeLine(ln))

-----------------------------------------------------------------------------
(* unfoldICSLines and foldICSLines *)

CRLF == <<"\r", "\n">>

\* raw.replace(/\r\n/g, "\n").split("\n"): the text is cut at every "\n", and
\* a "\r" standing directly before the cut is the one the replace removed
SplitLines(raw) ==
    LET pieces == split(raw, "\n")
    IN  [k \in 1..Len(pieces) |->
            IF k < Len(pieces) /\ endsWith(pieces[k], <<"\r">>)
            THEN SubSeq(pieces[k], 1, Len(pieces[k]) - 1)
            ELSE pieces[k]]

\* line.trimStart()
RECURSIVE trimStart(_)
trimStart(s) == IF Len(s) > 0 /\ IsSpace(s[1]) THEN trimStart(Tail(s)) ELSE s

\* one iteration of the for loop of unfoldICSLines: the array unfolded afterwards
UnfoldStep(unfolded, ln) ==
    IF startsWith(ln, <<" ">>) \/ startsWith(ln, <<"\t">>)
    THEN IF Len(unfolded) > 0
         THEN SubSeq(unfolded, 1, Len(unfolded) - 1)
              \o <<unfolded[Len(unfolded)] \o Tail(ln)>>
         ELSE <<trimStart(ln)>>
    ELSE Append(unfolded, ln)

RECURSIVE UnfoldLoop(_, _, _)
UnfoldLoop(ls, k, unfolded) ==
    IF k > Len(ls) THEN unfolded
    ELSE UnfoldLoop(ls, k + 1, UnfoldStep(unfolded, ls[k]))

unfoldICSLines(raw) == UnfoldLoop(SplitLines(raw), 1, <<>>)

\* the fold width of foldICSLines
FoldWidth == 75

\* A faulty variant of FoldChunks that begins a continuation line without
\* the space
RECURSIVE FoldChunksWithoutSpace(_, _)
FoldChunksWithoutSpace(ln, idx) ==
    IF idx >= Len(ln) THEN <<>>
    ELSE <<SubSeq(ln, idx + 1,
                  IF idx + FoldWidth < Len(ln) THEN idx + FoldWidth ELSE Len(ln))>>
         \o FoldChunksWithoutSpace(ln, idx + FoldWidth)

\* the while loop of foldICSLines on one long line, from 0-based offset idx
RECURSIVE FoldChunks(_, _)
FoldChunks(ln, idx) ==
    IF idx >= Len(ln) THEN <<>>
    ELSE LET chunk == SubSeq(ln, idx + 1,
                             IF idx + FoldWidth < Len(ln) THEN idx + FoldWidth ELSE Len(ln))
         IN  <<IF idx = 0 THEN chunk ELSE <<" ">> \o chunk>>
             \o FoldChunks(ln, idx + FoldWidth)

FoldLine(ln) == IF Len(ln) <= FoldWidth THEN <<ln>> ELSE FoldChunks(ln, 0)

foldICSLines(ls) ==
    join(Flatten([k \in 1..Len(ls) |-> FoldLine(ls[k])]), CRLF)

-----------------------------------------------------------------------------
(* vtimezoneBlock *)

vtimezoneBlock(tzid) ==
    << <<"B","E","G","I","N",":","V","T","I","M","E","Z","O","N","E">>,
       <<"T","Z","I","D",":">> \o tzid,
       <<"X","-","L","I","C","-","L","O","C","A","T","I","O","N",":">> \o tzid,
       <<"B","E","G","I","N",":","D","A","Y","L","I","G","H","T">>,
       <<"T","Z","O","F","F","S","E","T","F","R","O","M",":","+","0","1","0","0">>,
       <<"T","Z","O","F","F","S","E","T","T","O",":","+","0","2","0","0">>,
       <<"T","Z","N","A","M","E",":","G","M","T","+","2">>,
       <<"D","T","S","T","A","R","T",":","1","9","7","0","0","3","2","9","T","0","2","0","0","0","0">>,
       <<"R","R","U","L","E",":","F","R","E","Q","=","Y","E","A","R","L","Y",";","B","Y","M","O","N","T","H","=","3",";","B","Y","D","A","Y","=","-","1","S","U">>,
       <<"E","N","D",":","D","A","Y","L","I","G","H","T">>,
       <<"B","E","G","I","N",":","S","T","A","N","D","A","R","D">>,
       <<"T","Z","O","F","F","S","E","T","F","R","O","M",":","+","0","2","0","0">>,
       <<"T","Z","O","F","F","S","E","T","T","O",":","+","0","1","0","0">>,
       <<"T","Z","N","A","M","E",":","G","M","T","+","1">>,
       <<"D","T","S","T","A","R","T",":","1","9","7","0","1","0","2","5","T","0","3","0","0","0","0">>,
       <<"R","R","U","L","E",":","F","R","E","Q","=","Y","E","A","R","L","Y",";","B","Y","M","O","N","T","H","=","1","0",";","B","Y","D","A","Y","=","-","1","S","U">>,
       <<"E","N","D",":","S","T","A","N","D","A","R","D">>,
       <<"E","N","D",":","V","T","I","M","E","Z","O","N","E">> >>

-----------------------------------------------------------------------------
(* fixVEventStructure: getFieldName, fixDescription, sortVEventFields *)

fieldOrder ==
    << <<"U","I","D">>, <<"D","T","S","T","A","M","P">>, <<"D","T","S","T","A","R","T">>, <<"D","T","E","N","D">>, <<"D","U","R","A","T","I","O","N">>, <<"R","R","U","L","E">>,
       <<"R","D","A","T","E">>, <<"E","X","D","A","T","E">>, <<"E","X","R","U","L","E">>, <<"R","E","C","U","R","R","E","N","C","E","-","I","D">>, <<"S","U","M","M","A","R","Y">>,
       <<"D","E","S","C","R","I","P","T","I","O","N">>, <<"L","O","C","A","T","I","O","N">>, <<"C","L","A","S","S">>, <<"P","R","I","O","R","I","T","Y">>, <<"T","R","A","N","S","P">>,
       <<"S","T","A","T","U","S">>, <<"S","E","Q","U","E","N","C","E">>, <<"O","R","G","A","N","I","Z","E","R">>, <<"A","T","T","E","N","D","E","E">>, <<"C","R","E","A","T","E","D">>,
       <<"L","A","S","T","-","M","O","D","I","F","I","E","D">>, <<"U","R","L">> >>

\* fieldOrder.includes(name)
InFieldOrder(name) == \E k \in 1..Len(fieldOrder) : fieldOrder[k] = name

\* the empty tuple when the line has no colon (or nothing before it)
getFieldName(ln) ==
    LET colonIdx == indexOf(ln, ":")
    IN  IF colonIdx = 0 THEN <<>>
        ELSE LET fieldPart    == SubSeq(ln, 1, colonIdx - 1)
                 semicolonIdx == indexOf(fieldPart, ";")
             IN  IF semicolonIdx = 0 THEN toUpperCase(fieldPart)
                 ELSE toUpperCase(SubSeq(fieldPart, 1, semicolonIdx - 1))

\* the part of a description line that the first loop of fixDescription keeps
DescPart(ln) ==
    LET colonIdx == indexOf(ln, ":")
    IN  IF colonIdx # 0 THEN SliceFrom(ln, colonIdx + 1)
        ELSE IF startsWith(ln, <<" ">>) \/ startsWith(ln, <<"\t">>) THEN Tail(ln)
        ELSE ln

\* s.replace(/\\\s*$/g, ''): a backslash followed only by white space up to
\* the end is removed with that white space
StripTrailingBackslash(s) ==
    LET hits == {i \in 1..Len(s) :
                    s[i] = "\\" /\ \A j \in (i + 1)..Len(s) : IsSpace(s[j])}
    IN  IF hits = {} THEN s ELSE SubSeq(s, 1, MinOf(hits) - 1)

\* s.replace(/\n\s*$/g, ''): a newline followed only by white space up to the
\* end is removed with that white space
StripTrailingNewline(s) ==
    LET hits == {i \in 1..Len(s) :
                    s[i] = "\n" /\ \A j \in (i + 1)..Len(s) : IsSpace(s[j])}
    IN  IF hits = {} THEN s ELSE SubSeq(s, 1, MinOf(hits) - 1)

\* the lengths of the first segment and of the continuation segments
DescFirstWidth == 75
DescContWidth == 74

\* the for loop of fixDescription that cuts the continuation lines, from 0-based offset i
RECURSIVE DescContinuations(_, _)
DescContinuations(fullDesc, i) ==
    IF i >= Len(fullDesc) THEN <<>>
    ELSE <<(<<" ">> \o SubSeq(fullDesc, i + 1,
                        IF i + DescContWidth < Len(fullDesc) THEN i + DescContWidth
                        ELSE Len(fullDesc)))>>
         \o DescContinuations(fullDesc, i + DescContWidth)

\* "Rebuild DESCRIPTION field with proper folding"
RebuildDescription(fullDesc) ==
    IF \A i \in 1..Len(fullDesc) : IsSpace(fullDesc[i]) THEN <<>>
    ELSE IF Len(fullDesc) <= DescFirstWidth
    THEN <<(<<"D","E","S","C","R","I","P","T","I","O","N",":">> \o fullDesc)>>
    ELSE <<(<<"D","E","S","C","R","I","P","T","I","O","N",":">> \o SubSeq(fullDesc, 1, DescFirstWidth))>>
         \o DescContinuations(fullDesc, DescFirstWidth)

fixDescription(descLines) ==
    IF Len(descLines) = 0 THEN <<>>
    ELSE RebuildDescription(StripTrailingNewline(StripTrailingBackslash(
             Flatten([k \in 1..Len(descLines) |-> DescPart(descLines[k])]))))

\* the working state of sortVEventFields: fields is the Map (a function from
\* the field names set so far to their lines), currentField is the empty
\* tuple for null
SortState0 ==
    [fields |-> <<>>, xFields |-> <<>>, otherFields |-> <<>>,
     currentField |-> <<>>, currentFieldLines |-> <<>>]

\* "Save previous field" / "Save last field": the current field's lines go to
\* xFields, to the Map (replacing what the Map held for that name) or to otherFields
SaveField(st) ==
    IF Len(st.currentField) = 0 THEN st
    ELSE IF startsWith(st.currentField, <<"X","-">>)
    THEN [st EXCEPT !.xFields = @ \o st.currentFieldLines]
    ELSE IF InFieldOrder(st.currentField)
    THEN [st EXCEPT !.fields =
             [n \in (DOMAIN st.fields) \cup {st.currentField} |->
                 IF n = st.currentField THEN st.currentFieldLines ELSE st.fields[n]]]
    ELSE [st EXCEPT !.otherFields = @ \o st.currentFieldLines]

\* one iteration of the for loop over eventLines, fieldName being getFieldName(line)
SortStepNamed(st, ln, fieldName) ==
    IF Len(fieldName) = 0
    THEN IF Len(st.currentField) > 0
         THEN [st EXCEPT !.currentFieldLines = Append(@, ln)]
         ELSE st
    ELSE [SaveField(st) EXCEPT
            !.currentFieldLines = (IF Len(st.currentField) > 0 THEN <<>> ELSE @) \o <<ln>>,
            !.currentField = fieldName]

SortStep(st, ln) == SortStepNamed(st, ln, getFieldName(ln))

RECURSIVE SortLoop(_, _, _)
SortLoop(eventLines, k, st) ==
    IF k > Len(eventLines) THEN st
    ELSE SortLoop(eventLines, k + 1, SortStep(st, eventLines[k]))

\* "Build sorted result": the Map's fields in fieldOrder, DESCRIPTION through
\* fixDescription, then otherFields, then xFields
BuildSorted(st) ==
    Flatten([k \in 1..Len(fieldOrder) |->
                IF fieldOrder[k] \in DOMAIN st.fields
                THEN IF fieldOrder[k] = <<"D","E","S","C","R","I","P","T","I","O","N">>
                     THEN fixDescription(st.fields[fieldOrder[k]])
                     ELSE st.fields[fieldOrder[k]]
                ELSE <<>>])
    \o st.otherFields \o st.xFields

sortVEventFields(eventLines) ==
    BuildSorted(SaveField(SortLoop(eventLines, 1, SortState0)))

\* the working state of fixVEventStructure's main loop
FixState0 == [result |-> <<>>, currentVEvent |-> <<>>, insideVEvent |-> FALSE]

\* one iteration of the main loop of fixVEventStructure
FixStep(st, ln) ==
    IF upperEquals(ln, <<"B","E","G","I","N",":","V","E","V","E","N","T">>)
        THEN [st EXCEPT !.insideVEvent = TRUE, !.currentVEvent = <<ln>>]
        ELSE IF upperEquals(ln, <<"E","N","D",":","V","E","V","E","N","T">>)
        THEN IF st.insideVEvent
             THEN [result |-> st.result \o sortVEventFields(st.currentVEvent)
                                  \o <<<<"E","N","D",":","V","E","V","E","N","T">>>>,
                   currentVEvent |-> <<>>,
                   insideVEvent |-> FALSE]
             ELSE [st EXCEPT !.result = Append(@, ln)]
        ELSE IF st.insideVEvent
        THEN [st EXCEPT !.currentVEvent = Append(@, ln)]
        ELSE [st EXCEPT !.result = Append(@, ln)]

RECURSIVE FixLoop(_, _, _)
FixLoop(ls, k, st) ==
    IF k > Len(ls) THEN st ELSE FixLoop(ls, k + 1, FixStep(st, ls[k]))

\* "Handle case where file ends without END:VEVENT"
FixEnd(st) ==
    IF st.insideVEvent /\ Len(st.currentVEvent) > 0
    THEN st.result \o sortVEventFields(st.currentVEvent) \o <<<<"E","N","D",":","V","E","V","E","N","T">>>>
    ELSE st.result

fixVEventStructure(ls) == FixEnd(FixLoop(ls, 1, FixState0))

-----------------------------------------------------------------------------
(* transformIcs *)

\* upper.startsWith("DTSTART") || ... || upper.startsWith("EXDATE")
IsDateTimeCandidate(ln) ==
    \/ upperStartsWith(ln, <<"D","T","S","T","A","R","T">>)
    \/ upperStartsWith(ln, <<"D","T","E","N","D">>)
    \/ upperStartsWith(ln, <<"R","E","C","U","R","R","E","N","C","E","-","I","D">>)
    \/ upperStartsWith(ln, <<"E","X","D","A","T","E">>)

\* the callback of lines.map on one line, insideVTimezone being inside when
\* the line is reached: the line it returns
PassLine(ln, inside, o) ==
    IF upperEquals(ln, <<"B","E","G","I","N",":","V","T","I","M","E","Z","O","N","E">>) \/ upperEquals(ln, <<"E","N","D",":","V","T","I","M","E","Z","O","N","E">>) THEN ln
    ELSE IF inside THEN ln
    ELSE IF IsDateTimeCandidate(ln) THEN transformDateTimeLine(ln, o)
    ELSE ln

\* insideVTimezone after the callback has run on the line
PassFlag(ln, inside) ==
    IF upperEquals(ln, <<"B","E","G","I","N",":","V","T","I","M","E","Z","O","N","E">>) THEN TRUE
    ELSE IF upperEquals(ln, <<"E","N","D",":","V","T","I","M","E","Z","O","N","E">>) THEN FALSE
    ELSE inside

\* lines.map from line k on
RECURSIVE RewritePass(_, _, _, _)
RewritePass(ls, k, inside, o) ==
    IF k > Len(ls) THEN <<>>
    ELSE <<PassLine(ls[k], inside, o)>>
         \o RewritePass(ls, k + 1, PassFlag(ls[k], inside), o)

\* array.splice(start, deleteCount, ...items) with a 1-based start: the array afterwards
splice(arr, start, deleteCount, items) ==
    SubSeq(arr, 1, start - 1) \o items \o SubSeq(arr, start + deleteCount, Len(arr))

IsTzidLineFor(l, tz) == upperStartsWith(l, <<"T","Z","I","D",":">>) /\ includes(l, tz)

IsBeginVtimezone(l) == upperStartsWith(l, <<"B","E","G","I","N",":","V","T","I","M","E","Z","O","N","E">>)

IsBeginVevent(l) == upperStartsWith(l, <<"B","E","G","I","N",":","V","E","V","E","N","T">>)

IsProdid(l) == upperStartsWith(l, <<"P","R","O","D","I","D",":">>)

\* the branch taken when no TZID: line names the target: vtzStartIdx,
\* vtzEndIdx and idx are the three findIndex results
ReplaceOrInsert(arr, tz, vtzStartIdx, vtzEndIdx, idx) ==
    IF vtzStartIdx > 0
    THEN IF vtzEndIdx > 0
         THEN splice(arr, vtzStartIdx, vtzEndIdx - vtzStartIdx + 1, vtimezoneBlock(tz))
         ELSE arr
    ELSE IF idx > 0 THEN splice(arr, idx, 0, vtimezoneBlock(tz))
    ELSE arr \o vtimezoneBlock(tz)

\* findIndex((l, idx) => idx > vtzStartIdx && l.toUpperCase().startsWith("END:VTIMEZONE"))
EndIndexAfter(arr, vtzStartIdx) ==
    findIndex({idx \in 1..Len(arr) :
                  idx > vtzStartIdx /\ upperStartsWith(arr[idx], <<"E","N","D",":","V","T","I","M","E","Z","O","N","E">>)})

FromStart(arr, tz, vtzStartIdx) ==
    ReplaceOrInsert(arr, tz, vtzStartIdx, EndIndexAfter(arr, vtzStartIdx),
                    findIndex({i \in 1..Len(arr) : IsBeginVevent(arr[i])}))

\* "Replace old VTIMEZONE blocks with target timezone block"
IntegrateVtimezone(arr, tz) ==
    IF ~isLikelyIana(tz) THEN arr
    ELSE IF \E i \in 1..Len(arr) : IsTzidLineFor(arr[i], tz) THEN arr
    ELSE FromStart(arr, tz, findIndex({i \in 1..Len(arr) : IsBeginVtimezone(arr[i])}))

\* "Update PRODID to be Google Calendar compatible"
UpdateProdid(arr) ==
    LET prodidIdx == findIndex({i \in 1..Len(arr) : IsProdid(arr[i])})
    IN  IF prodidIdx > 0
        THEN [arr EXCEPT ![prodidIdx] = <<"P","R","O","D","I","D",":","-","/","/","G","o","o","g","l","e"," ","I","n","c","/","/","G","o","o","g","l","e"," ","C","a","l","e","n","d","a","r"," ","7","0",".","9","0","5","4","/","/","E","N">>]
        ELSE arr

\* the values of transformIcs when it returns: lines, transformed as
\* lines.map returned it (mapped), fixed and the returned text
Returned(ls, mapped, fx) ==
    [lines |-> ls, mapped |-> mapped, fixed |-> fx, out |-> foldICSLines(fx) \o CRLF]

\* from the rewriting pass on: the VTIMEZONE block, PRODID, fixVEventStructure
AfterPass(ls, mapped, tz) ==
    Returned(ls, mapped, fixVEventStructure(UpdateProdid(IntegrateVtimezone(mapped, tz))))

AfterUnfold(ls, o) == AfterPass(ls, RewritePass(ls, 1, FALSE, o), o.targetTz)

transformIcs(text, tz, override) ==
    AfterUnfold(unfoldICSLines(text), [targetTz |-> tz, overrideExistingTz |-> override])

-----------------------------------------------------------------------------
(* Inputs of the rewriter: date-time lines built from property names,      *)
(* parameter lists and values, and the options of a call                   *)

MaxParams == 2

LineProps == {<<"D","T","S","T","A","R","T">>, <<"R","E","C","U","R","R","E","N","C","E","-","I","D">>, <<"E","X","D","A","T","E">>, <<"d","t","s","t","a","r","t">>}

LineParams ==
    {<<"T","Z","I","D","=","W","."," ","E","u","r","o","p","e"," ","S","t","a","n","d","a","r","d"," ","T","i","m","e">>, <<"T","Z","I","D","=","A","m","e","r","i","c","a","/","N","e","w","_","Y","o","r","k">>, <<"t","z","i","d","=","E","t","c","/","G","M","T","+","1","0">>,
     <<"T","Z","I","D","=">>, <<"V","A","L","U","E","=","D","A","T","E">>, <<"V","A","L","U","E","=","D","A","T","E","-","T","I","M","E">>, <<"X","-","A","=","1">>, <<"X","-","T","Z","I","D","=","f","o","o">>}

LineValues ==
    {<<"2","0","2","4","0","1","0","1","T","1","2","0","0","0","0","Z">>, <<"2","0","2","4","0","7","0","1","T","1","2","0","0","0","0","Z">>, <<"2","0","2","3","1","2","3","1","T","2","3","3","0","0","0","Z">>,
     <<"2","0","2","4","0","3","3","1","T","0","0","5","9","5","9","Z">>, <<"2","0","2","4","0","3","3","1","T","0","1","0","0","0","0","Z">>, <<"2","0","2","4","0","1","0","1","T","1","2","0","0","Z">>,
     <<"2","0","2","4","0","1","0","1","T","1","2","0","0","0","0">>, <<"2","0","2","4","0","7","0","1","T","1","2","0","0">>, <<"2","0","2","4","0","1","0","1">>,
     <<"2","0","2","4","0","2","3","0","T","1","2","0","0","0","0","Z">>, <<"2","0","2","4","0","2","3","0","T","1","2","0","0","0","0">>,
     <<"2","0","2","4","0","1","0","1","T","1","2","0","0","0","0","Z",",","2","0","2","4","0","1","0","2","T","1","2","0","0","0","0","Z">>, <<"2","0","2","4","0","1","0","1","T","1","2","0","0","0","0",",","2","0","2","4","0","1","0","2","T","1","2","0","0","0","0">>}

TargetZones == {<<"E","u","r","o","p","e","/","Z","u","r","i","c","h">>, <<"E","t","c","/","G","M","T","+","1">>, <<"F","o","o","/","B","a","r">>}

ParamLists == UNION {[1..n -> LineParams] : n \in 0..MaxParams}

ParamText(ps) == Flatten([i \in 1..Len(ps) |-> <<";">> \o ps[i]])

DateLines ==
    {p \o ParamText(ps) \o <<":">> \o v :
        p \in LineProps, ps \in ParamLists, v \in LineValues}

Options == [targetTz : TargetZones, overrideExistingTz : BOOLEAN]

-----------------------------------------------------------------------------
(* The rewriter called on one line *)

InitLine ==
    /\ line \in DateLines
    /\ opts \in Options
    /\ result = <<>>
    /\ pc = "call"
    /\ ics = <<>> /\ targetTz = <<>> /\ overrideExistingTz = FALSE
    /\ lines = <<>> /\ transformed = <<>> /\ fixed = <<>> /\ out = <<>>
    /\ round = 0
    /\ reqs = <<>>

CallTransformDateTimeLine ==
    /\ pc = "call"
    /\ result' = transformDateTimeLine(line, opts)
    /\ pc' = "return"
    /\ UNCHANGED <<line, opts, ics, targetTz, overrideExistingTz, lines,
                   transformed, fixed, out, round, reqs>>

NextLine == CallTransformDateTimeLine

SpecLine == InitLine /\ [][NextLine]_vars

-----------------------------------------------------------------------------
(* The document pipeline called on a document, and called again on its own *)
(* output (a second proxy pointed at the first)                            *)

MaxRounds == 2

\* the values of a finished transformIcs call r enter the state
Return(r) ==
    /\ lines' = r.lines
    /\ transformed' = r.mapped
    /\ fixed' = r.fixed
    /\ out' = r.out

CallTransformIcs ==
    /\ pc = "call"
    /\ Return(transformIcs(ics, targetTz, overrideExistingTz))
    /\ round' = round + 1
    /\ pc' = "return"
    /\ UNCHANGED <<line, opts, result, ics, targetTz, overrideExistingTz, reqs>>

Resubmit ==
    /\ pc = "return"
    /\ round >= 1
    /\ round < MaxRounds
    /\ ics' = out
    /\ pc' = "call"
    /\ UNCHANGED <<line, opts, result, targetTz, overrideExistingTz, lines,
                   transformed, fixed, out, round, reqs>>

NextDoc == CallTransformIcs \/ Resubmit

InitCall(docs, zones) ==
    /\ \E d \in docs : ics = join(d, CRLF)
    /\ targetTz \in zones
    /\ overrideExistingTz \in BOOLEAN
    /\ lines = <<>> /\ transformed = <<>> /\ fixed = <<>> /\ out = <<>>
    /\ round = 0
    /\ reqs = <<>>
    /\ pc = "call"
    /\ line = <<>> /\ opts = <<>> /\ result = <<>>

(* Documents as short sequences of structural and date-time lines *)

MaxDocLines == 3

DocLines ==
    {<<"B","E","G","I","N",":","V","T","I","M","E","Z","O","N","E">>, <<"E","N","D",":","V","T","I","M","E","Z","O","N","E">>, <<"T","Z","I","D",":","E","t","c","/","G","M","T","+","1","0">>, <<"T","Z","I","D",":","E","u","r","o","p","e","/","Z","u","r","i","c","h">>,
     <<"B","E","G","I","N",":","V","E","V","E","N","T">>, <<"E","N","D",":","V","E","V","E","N","T">>,
     <<"D","T","S","T","A","R","T",":","2","0","2","4","0","1","0","1","T","1","2","0","0","0","0","Z">>, <<"D","T","E","N","D",":","2","0","2","4","0","1","0","1","T","1","3","0","0","0","0">>,
     <<"D","T","S","T","A","R","T",";","V","A","L","U","E","=","D","A","T","E",";","X","-","A","=","1",":","2","0","2","4","0","1","0","1">>}

Documents == UNION {[1..n -> DocLines] : n \in 1..MaxDocLines}

DocZones == {<<"E","u","r","o","p","e","/","Z","u","r","i","c","h">>, <<"E","t","c","/","G","M","T","+","1">>, <<"U","T","C">>}

InitDoc == InitCall(Documents, DocZones)

SpecDoc == InitDoc /\ [][NextDoc]_vars

(* Documents of one event block whose body is a short sequence of property lines *)

MaxEventLines == 3

EventLines ==
    {<<"U","I","D",":","1">>, <<"S","U","M","M","A","R","Y",":","s">>, <<"A","T","T","E","N","D","E","E",":","m","a","i","l","t","o",":","a","@","x">>, <<"A","T","T","E","N","D","E","E",":","m","a","i","l","t","o",":","b","@","x">>,
     <<"E","X","D","A","T","E",":","2","0","2","4","0","1","0","1","T","1","2","0","0","0","0","Z">>, <<"C","O","M","M","E","N","T",":","c">>, <<"X","-","A",":","1">>, <<"D","E","S","C","R","I","P","T","I","O","N",":","d">>, <<"c","o","n","t">>,
     <<"B","E","G","I","N",":","V","A","L","A","R","M">>, <<"E","N","D",":","V","A","L","A","R","M">>}

EventBodies == UNION {[1..n -> EventLines] : n \in 0..MaxEventLines}

EventDocuments == {<<<<"B","E","G","I","N",":","V","E","V","E","N","T">>>> \o b \o <<<<"E","N","D",":","V","E","V","E","N","T">>>> : b \in EventBodies}

InitEvent == InitCall(EventDocuments, {<<"E","u","r","o","p","e","/","Z","u","r","i","c","h">>})

SpecEvent == InitEvent /\ [][NextDoc]_vars

-----------------------------------------------------------------------------
(* The parts of a recognized date-time line, read off the line itself *)

\* the parameters of a line, one text per parameter, from the parameter text
\* between the property name and the colon
ParamsOf(params) == IF Len(params) = 0 THEN <<>> ELSE split(Tail(params), ";")

ParamsOfLine(ln) == ParamsOf(MatchDateTimeLine(ln).params)

\* the name of a parameter, in upper case, and its value
ParamName(kv) ==
    LET e == indexOf(kv, "=")
    IN  toUpperCase(IF e = 0 THEN kv ELSE SubSeq(kv, 1, e - 1))

ParamValue(kv) ==
    LET e == indexOf(kv, "=")
    IN  IF e = 0 THEN <<>> ELSE SliceFrom(kv, e + 1)

\* among the parameters ps there is one called TZID; one that names a zone
HasTzidParam(ps) == \E i \in 1..Len(ps) : ParamName(ps[i]) = <<"T","Z","I","D">>

HasNamedTzid(ps) ==
    \E i \in 1..Len(ps) : ParamName(ps[i]) = <<"T","Z","I","D">> /\ Len(ParamValue(ps[i])) > 0

\* among the parameters ps there is VALUE=DATE, wherever it stands
CarriesValueDate(ps) == \E i \in 1..Len(ps) : toUpperCase(ps[i]) = <<"V","A","L","U","E","=","D","A","T","E">>

EndsWithZ(value) == endsWith(value, <<"Z">>)

\* the digit-string of a value: the value without the trailing designator
DigitsOf(value) ==
    IF EndsWithZ(value) THEN SubSeq(value, 1, Len(value) - 1) ELSE value

FormatOf(d) == IF Len(d) = FmtWidth(FmtSeconds) THEN FmtSeconds ELSE FmtMinutes

\* the wall-clock reading d in seconds
WallSeconds(d) ==
    LET fmt == FormatOf(d)
    IN  LocalSeconds(FieldOf(d, fmt, "yyyy"), FieldOf(d, fmt, "LL"), FieldOf(d, fmt, "dd"),
                     FieldOf(d, fmt, "HH"), FieldOf(d, fmt, "mm"), FieldOf(d, fmt, "ss"))

\* d is a calendar date-time in one of the two formats
ValidDigits(d) ==
    LET fmt == FormatOf(d)
    IN  /\ MatchesFormat(d, fmt)
        /\ ValidFields(FieldOf(d, fmt, "yyyy"), FieldOf(d, fmt, "LL"), FieldOf(d, fmt, "dd"),
                       FieldOf(d, fmt, "HH"), FieldOf(d, fmt, "mm"), FieldOf(d, fmt, "ss"))

\* floating: no trailing designator, no TZID parameter, not all-day
IsFloating(ps, value) == ~EndsWithZ(value) /\ ~HasTzidParam(ps) /\ ~CarriesValueDate(ps)

\* the parameters that are not called TZID, as they stand in the line
RECURSIVE OtherParams(_)
OtherParams(ps) ==
    IF Len(ps) = 0 THEN <<>>
    ELSE (IF ParamName(ps[1]) = <<"T","Z","I","D">> THEN <<>> ELSE <<";">> \o ps[1])
         \o OtherParams(Tail(ps))

\* the line made of a property name, TZID=tz, the parameters ps that are not
\* called TZID, and a value
Retagged(prop, tz, ps, value) ==
    prop \o <<";","T","Z","I","D","=">> \o tz \o OtherParams(ps) \o <<":">> \o value

Returned1 == pc = "return" /\ round = 1

-----------------------------------------------------------------------------
(* Properties of the rewriter, under SpecLine *)

\* C1: a line that is not all-day, whose value ends with Z and is a valid
\* date-time, comes out for every target zone that exists as the property
\* name, TZID=<target> as the only TZID parameter, the other parameters and a
\* value without Z in the same format that is the wall-clock reading of the
\* same instant in the target zone: the reading minus the zone's offset at
\* the instant is the instant
C1_UtcToTargetWallClock ==
    pc = "return" =>
    LET m  == MatchDateTimeLine(line)
        ps == ParamsOf(m.params)
        d  == DigitsOf(m.value)
        z  == NormalizeZone(opts.targetTz)
        r  == MatchDateTimeLine(result)
    IN  (EndsWithZ(m.value) /\ ~CarriesValueDate(ps) /\ ValidDigits(d) /\ z > 0)
        => /\ r.m
           /\ result = Retagged(m.prop, opts.targetTz, ps, r.value)
           /\ ~EndsWithZ(r.value)
           /\ MatchesFormat(r.value, FormatOf(d))
           /\ ValidDigits(r.value)
           /\ WallSeconds(r.value) - ZoneOffset(z, WallSeconds(d)) = WallSeconds(d)

\* noon UTC on 1 January 2024 has become 13:00 in Europe/Zurich
C1_Witness ==
    /\ pc = "return"
    /\ line = <<"D","T","S","T","A","R","T",":","2","0","2","4","0","1","0","1","T","1","2","0","0","0","0","Z">>
    /\ opts.targetTz = <<"E","u","r","o","p","e","/","Z","u","r","i","c","h">>
    /\ result = <<"D","T","S","T","A","R","T",";","T","Z","I","D","=","E","u","r","o","p","e","/","Z","u","r","i","c","h",":","2","0","2","4","0","1","0","1","T","1","3","0","0","0","0">>

\* C2: a floating line comes out as the property name, TZID=<target>, the
\* parameters of the input and the value of the input, byte for byte
C2_FloatingDigitsKept ==
    pc = "return" =>
    LET m  == MatchDateTimeLine(line)
        ps == ParamsOf(m.params)
    IN  IsFloating(ps, m.value)
        => result = Retagged(m.prop, opts.targetTz, ps, m.value)

\* C9: with overrideExistingTz = false a line that has a TZID parameter
\* naming a zone comes out as it went in
C9_ExistingTzidKept ==
    (pc = "return" /\ ~opts.overrideExistingTz /\ HasNamedTzid(ParamsOfLine(line)))
    => result = line

\* C9, restated: with overrideExistingTz = false a line that has a TZID
\* parameter naming a zone and whose value does not end with Z comes out as
\* it went in
C9_ExistingTzidKeptWithoutZ ==
    (/\ pc = "return"
     /\ ~opts.overrideExistingTz
     /\ HasNamedTzid(ParamsOfLine(line))
     /\ ~EndsWithZ(MatchDateTimeLine(line).value))
    => result = line

\* a valid New York reading, which the rewriter would convert, is left alone
C9_Witness ==
    /\ pc = "return"
    /\ ~opts.overrideExistingTz
    /\ opts.targetTz = <<"E","u","r","o","p","e","/","Z","u","r","i","c","h">>
    /\ line = <<"D","T","S","T","A","R","T",";","T","Z","I","D","=","A","m","e","r","i","c","a","/","N","e","w","_","Y","o","r","k",":","2","0","2","4","0","1","0","1","T","1","2","0","0","0","0">>
    /\ result = line

\* C10: a line whose digit-string is no valid date-time comes out as it went
\* in, in each of the three classes: trailing Z, existing TZID with
\* overrideExistingTz = true, floating
C10_MalformedPassesThrough ==
    pc = "return" =>
    LET m  == MatchDateTimeLine(line)
        ps == ParamsOf(m.params)
    IN  (/\ ~ValidDigits(DigitsOf(m.value))
         /\ \/ EndsWithZ(m.value)
            \/ HasNamedTzid(ps) /\ opts.overrideExistingTz
            \/ IsFloating(ps, m.value))
        => result = line

\* C10, restated: a line whose digit-string is no valid date-time comes out
\* as it went in when its value ends with Z, and when it has a TZID parameter
\* naming a zone and overrideExistingTz = true
C10_MalformedPassesThroughWhenParsed ==
    pc = "return" =>
    LET m  == MatchDateTimeLine(line)
        ps == ParamsOf(m.params)
    IN  (/\ ~ValidDigits(DigitsOf(m.value))
         /\ \/ EndsWithZ(m.value)
            \/ HasNamedTzid(ps) /\ opts.overrideExistingTz)
        => result = line

\* 30 February with a trailing Z is handed back unchanged
C10_Witness ==
    /\ pc = "return"
    /\ line = <<"D","T","S","T","A","R","T",":","2","0","2","4","0","2","3","0","T","1","2","0","0","0","0","Z">>
    /\ opts.targetTz = <<"E","u","r","o","p","e","/","Z","u","r","i","c","h">>
    /\ result = line

-----------------------------------------------------------------------------
(* Properties of the whole transform on short documents, under SpecDoc *)

\* the index set of a sequence and the lines of a sequence
Indices(seq) == 1..Len(seq)

\* C3: every line of the document that has a VALUE=DATE parameter is a line
\* of the output, byte for byte
C3_AllDayUntouched ==
    pc = "return"
    => \A i \in Indices(lines) :
          (MatchDateTimeLine(lines[i]).m /\ CarriesValueDate(ParamsOfLine(lines[i])))
          => \E j \in Indices(fixed) : fixed[j] = lines[i]

\* ls[b..e] is a timezone-definition block: its markers with no marker between them
IsVtzBlock(ls, b, e) ==
    /\ b < e
    /\ upperEquals(ls[b], <<"B","E","G","I","N",":","V","T","I","M","E","Z","O","N","E">>)
    /\ upperEquals(ls[e], <<"E","N","D",":","V","T","I","M","E","Z","O","N","E">>)
    /\ \A k \in (b + 1)..(e - 1) :
          ~upperEquals(ls[k], <<"B","E","G","I","N",":","V","T","I","M","E","Z","O","N","E">>) /\ ~upperEquals(ls[k], <<"E","N","D",":","V","T","I","M","E","Z","O","N","E">>)

\* the blocks of ls, as pairs of indices, and those that declare zone tz
VtzBlocks(ls) == {be \in Indices(ls) \X Indices(ls) : IsVtzBlock(ls, be[1], be[2])}

Declares(ls, be, tz) == \E t \in (be[1] + 1)..(be[2] - 1) : ls[t] = <<"T","Z","I","D",":">> \o tz

BlocksFor(ls, tz) == {be \in VtzBlocks(ls) : Declares(ls, be, tz)}

\* the timezone-definition markers of ls are paired and its TZID lines stand
\* in blocks: every marker and every TZID line belongs to a block
WellFormedBlocks(ls) ==
    \A t \in Indices(ls) :
        (\/ upperStartsWith(ls[t], <<"T","Z","I","D",":">>)
         \/ upperStartsWith(ls[t], <<"B","E","G","I","N",":","V","T","I","M","E","Z","O","N","E">>)
         \/ upperStartsWith(ls[t], <<"E","N","D",":","V","T","I","M","E","Z","O","N","E">>))
        => \E be \in VtzBlocks(ls) : be[1] <= t /\ t <= be[2]

\* C7: for a document with well-formed timezone-definition blocks and a
\* target that passes the shape check, the output has a timezone-definition
\* block whose TZID line is TZID:<target>
C7_TargetBlockPresent ==
    (pc = "return" /\ isLikelyIana(targetTz) /\ WellFormedBlocks(lines))
    => BlocksFor(fixed, targetTz) # {}

\* C8: when the only block of the document declares another zone than the
\* target, the output has one block, in its place, and it declares the
\* target; when the only block of the document declares the target, as after
\* a transform, the output has that one block and no other
C8_OneTargetBlock ==
    (/\ pc = "return"
     /\ isLikelyIana(targetTz)
     /\ WellFormedBlocks(lines)
     /\ Cardinality(VtzBlocks(lines)) = 1)
    => /\ Cardinality(VtzBlocks(fixed)) = 1
       /\ Cardinality(BlocksFor(fixed, targetTz)) = 1

-----------------------------------------------------------------------------
(* Properties of the normalizer on one event block, under SpecEvent *)

\* the lines of the event of ls: those between the first BEGIN:VEVENT and the
\* first END:VEVENT after it
FirstIndex(ls, text) ==
    IF \E i \in Indices(ls) : ls[i] = text
    THEN MinOf({i \in Indices(ls) : ls[i] = text})
    ELSE 0

EventBody(ls) ==
    SubSeq(ls, FirstIndex(ls, <<"B","E","G","I","N",":","V","E","V","E","N","T">>) + 1, FirstIndex(ls, <<"E","N","D",":","V","E","V","E","N","T">>) - 1)

\* the lines of ls whose field name is name
RECURSIVE LinesOfField(_, _)
LinesOfField(ls, name) ==
    IF Len(ls) = 0 THEN <<>>
    ELSE (IF getFieldName(ls[1]) = name THEN <<ls[1]>> ELSE <<>>)
         \o LinesOfField(Tail(ls), name)

\* C4: the lines of a field that occurs several times in the event are all in
\* the output, in their order
C4_DuplicatesKept ==
    Returned1
    => \A i \in Indices(EventBody(transformed)) :
          LET name == getFieldName(EventBody(transformed)[i])
          IN  (Len(name) > 0 /\ name # <<"D","E","S","C","R","I","P","T","I","O","N">>)
              => LinesOfField(fixed, name) = LinesOfField(EventBody(transformed), name)

\* C5: the output has the open marker, then the property lines of the event,
\* then the close marker: no property line of the event stands before the
\* open marker or after the close marker
C5_MarkersEncloseProperties ==
    Returned1
    => /\ FirstIndex(fixed, <<"B","E","G","I","N",":","V","E","V","E","N","T">>) > 0
       /\ FirstIndex(fixed, <<"E","N","D",":","V","E","V","E","N","T">>) > FirstIndex(fixed, <<"B","E","G","I","N",":","V","E","V","E","N","T">>)
       /\ \A j \in Indices(fixed) :
             (\E i \in Indices(EventBody(transformed)) : fixed[j] = EventBody(transformed)[i])
             => /\ FirstIndex(fixed, <<"B","E","G","I","N",":","V","E","V","E","N","T">>) < j
                /\ j < FirstIndex(fixed, <<"E","N","D",":","V","E","V","E","N","T">>)

\* the field a line of body belongs to: its own name, or for a line without a
\* name the name of the nearest named line before it (the empty tuple if none)
RECURSIVE OwnerOf(_, _)
OwnerOf(body, i) ==
    IF i = 0 THEN <<>>
    ELSE IF Len(getFieldName(body[i])) > 0 THEN getFieldName(body[i])
    ELSE OwnerOf(body, i - 1)

\* the lines of body that belong to a field of the set names, in their order
RECURSIVE Group(_, _, _)
Group(body, i, names) ==
    IF i > Len(body) THEN <<>>
    ELSE (IF OwnerOf(body, i) \in names THEN <<body[i]>> ELSE <<>>)
         \o Group(body, i + 1, names)

\* the field names of body
Owners(body) == {OwnerOf(body, i) : i \in 1..Len(body)} \ {<<>>}

\* the three groups, one after the other
ThreeGroups(body) ==
    Flatten([k \in 1..Len(fieldOrder) |-> Group(body, 1, {fieldOrder[k]})])
    \o Group(body, 1, {n \in Owners(body) : ~InFieldOrder(n) /\ ~startsWith(n, <<"X","-">>)})
    \o Group(body, 1, {n \in Owners(body) : ~InFieldOrder(n) /\ startsWith(n, <<"X","-">>)})

\* C6: for an event that begins with a named line and whose DESCRIPTION has
\* no line without a name after it, between the markers of the output stand
\* the fields of the canonical list in the list's order, then the fields that
\* are neither canonical nor X-prefixed, then the X-prefixed fields, each
\* group in the order of the input and each line without a name directly
\* after the line it followed
C6_ThreeGroups ==
    Returned1 =>
    LET body == EventBody(transformed)
    IN  (/\ Len(body) > 0
         /\ Len(getFieldName(body[1])) > 0
         /\ \A i \in Indices(body) :
               OwnerOf(body, i) = <<"D","E","S","C","R","I","P","T","I","O","N">> => Len(getFieldName(body[i])) > 0)
        => /\ FirstIndex(fixed, <<"B","E","G","I","N",":","V","E","V","E","N","T">>) > 0
           /\ FirstIndex(fixed, <<"E","N","D",":","V","E","V","E","N","T">>) > 0
           /\ EventBody(fixed) = ThreeGroups(body)

-----------------------------------------------------------------------------
(* Well-formedness of what the rewriter emits, under SpecLine *)

\* C11: whatever the target zone identifier (one that names no zone
\* included), a line with a valid date-time value that the rewriter changes
\* comes out as a recognized date-time line whose value is a valid date-time
\* digit-string in the format of the input, without Z
C11_ChangedLinesWellFormed ==
    pc = "return" =>
    LET m == MatchDateTimeLine(line)
        d == DigitsOf(m.value)
        r == MatchDateTimeLine(result)
    IN  (m.m /\ ValidDigits(d) /\ result # line)
        => /\ r.m
           /\ MatchesFormat(r.value, FormatOf(d))
           /\ ValidDigits(r.value)

-----------------------------------------------------------------------------
(* The rewriter called on a line with one TZID parameter, the zone named   *)
(* in many ways: a name of the translation table, names of zones, a name   *)
(* shaped like a zone's that names none, a name without that shape         *)

ZoneNames ==
    {<<"W","."," ","E","u","r","o","p","e"," ","S","t","a","n","d","a","r","d"," ","T","i","m","e">>, <<"A","m","e","r","i","c","a","/","N","e","w","_","Y","o","r","k">>, <<"E","t","c","/","G","M","T","+","1","0">>,
     <<"F","o","o","/","B","a","r">>, <<"N","o","w","h","e","r","e">>, <<"U","T","C">>}

ZoneValues ==
    {<<"2","0","2","4","0","1","0","1","T","1","2","0","0","0","0">>, <<"2","0","2","4","0","7","0","1","T","1","2","0","0">>, <<"2","0","2","4","0","3","3","1","T","0","2","3","0","0","0">>, <<"2","0","2","4","0","2","3","0","T","1","2","0","0","0","0">>}

ZoneLines ==
    {p \o <<";","T","Z","I","D","=">> \o n \o x \o <<":">> \o v :
        p \in LineProps, n \in ZoneNames, x \in {<<>>, <<";","X","-","A","=","1">>}, v \in ZoneValues}

InitZone ==
    /\ line \in ZoneLines
    /\ opts \in Options
    /\ result = <<>>
    /\ pc = "call"
    /\ ics = <<>> /\ targetTz = <<>> /\ overrideExistingTz = FALSE
    /\ lines = <<>> /\ transformed = <<>> /\ fixed = <<>> /\ out = <<>>
    /\ round = 0
    /\ reqs = <<>>

SpecZone == InitZone /\ [][NextLine]_vars

\* the value of the TZID parameter among the parameters ps
TzidOf(ps) == ParamValue(ps[CHOOSE i \in 1..Len(ps) : ParamName(ps[i]) = <<"T","Z","I","D">>])

\* the zone a TZID name stands for: the zone of its translation-table entry
\* or of the name itself, and UTC when that names no zone
SourceZoneOf(name) ==
    LET z == NormalizeZone(mapWindowsToIana(name))
    IN  IF z > 0 THEN z ELSE NormalizeZone(<<"U","T","C">>)

\* C12: with overrideExistingTz a line with a TZID parameter and a valid
\* date-time value comes out, for every target zone that exists, retagged
\* with the target zone, its value the wall-clock reading in the target zone
\* of the instant that the input value is in the zone its TZID stands for
\* (UTC when the name resolves to no zone)
C12_OverrideConvertsFromSourceZone ==
    pc = "return" =>
    LET m  == MatchDateTimeLine(line)
        ps == ParamsOf(m.params)
        z  == NormalizeZone(opts.targetTz)
        r  == MatchDateTimeLine(result)
    IN  (opts.overrideExistingTz /\ ValidDigits(m.value) /\ z > 0)
        => /\ r.m
           /\ result = Retagged(m.prop, opts.targetTz, ps, r.value)
           /\ MatchesFormat(r.value, FormatOf(m.value))
           /\ ValidDigits(r.value)
           /\ LET ts == ObjToTS(WallSeconds(m.value), SourceZoneOf(TzidOf(ps)))
              IN  WallSeconds(r.value) - ZoneOffset(z, ts) = ts

-----------------------------------------------------------------------------
(* unfoldICSLines and foldICSLines on wire texts: physical lines joined by *)
(* the line ending, some of them continuation lines, some of them long     *)

MaxFoldLines == 3

\* n times the character c
Run(c, n) == [i \in 1..n |-> c]

PhysicalLines ==
    {<<"A","B">>, <<" ","C","D">>, <<"\t", "E">>, <<>>,
     Run("x", FoldWidth), Run("x", FoldWidth + 1), Run("x", 2 * FoldWidth + 1),
     <<" ">> \o Run("y", FoldWidth)}

WireTexts == {join(d, CRLF) : d \in UNION {[1..n -> PhysicalLines] : n \in 1..MaxFoldLines}}

InitFold ==
    /\ ics \in WireTexts
    /\ lines = <<>> /\ out = <<>>
    /\ round = 0
    /\ reqs = <<>>
    /\ pc = "call"
    /\ targetTz = <<>> /\ overrideExistingTz = FALSE
    /\ transformed = <<>> /\ fixed = <<>>
    /\ line = <<>> /\ opts = <<>> /\ result = <<>>

\* the text is unfolded and the logical lines are folded again
CallUnfoldFold ==
    /\ pc = "call"
    /\ lines' = unfoldICSLines(ics)
    /\ out' = foldICSLines(lines')
    /\ round' = round + 1
    /\ pc' = "return"
    /\ UNCHANGED <<line, opts, result, ics, targetTz, overrideExistingTz,
                   transformed, fixed, reqs>>

NextFold == CallUnfoldFold \/ Resubmit

SpecFold == InitFold /\ [][NextFold]_vars

\* C13: a wire text that does not begin with a continuation line
\* comes back from unfolding and folding as it went in
C13_FoldInvertsUnfold ==
    (pc = "return" /\ round = 1 /\ (Len(ics) > 0 => ~IsSpace(ics[1]))) => out = ics

\* C13, restated: unfolding inverts folding, that is the logical lines that
\* were folded come back from unfolding the folded text; and a text that the
\* folder itself produced comes back from unfolding and folding as it went in
C13_UnfoldInvertsFold ==
    pc = "return" =>
        /\ unfoldICSLines(out) = lines
        /\ round = 2 => out = ics

\* a logical line of 76 characters has been folded after the 75th, and the
\* folded text has come back from a second round as it went in
C13_Witness ==
    /\ pc = "return"
    /\ round = 2
    /\ lines = <<Run("x", FoldWidth + 1)>>
    /\ out = Run("x", FoldWidth) \o CRLF \o <<" ", "x">>
    /\ out = ics

-----------------------------------------------------------------------------
(* The parameters of a rewritten line, under SpecLine *)

\* C20: a line that the rewriter changes keeps its property name; its first
\* parameter is TZID=<target>; no parameter after the first is called TZID
\* in any letter case; and the parameters after the first are the parameters
\* of the input that are not called TZID, in their order
C20_TargetTzidFirstOthersKept ==
    pc = "return" =>
    LET m  == MatchDateTimeLine(line)
        r  == MatchDateTimeLine(result)
        rp == ParamsOf(r.params)
    IN  result # line
        => /\ r.m
           /\ r.prop = m.prop
           /\ Len(rp) >= 1
           /\ rp[1] = <<"T","Z","I","D","=">> \o opts.targetTz
           /\ \A i \in 2..Len(rp) : ParamName(rp[i]) # <<"T","Z","I","D">>
           /\ ParamText(Tail(rp)) = OtherParams(ParamsOf(m.params))

\* a lower-case tzid parameter has given way to the target's, and the
\* parameter after it has stayed
C20_Witness ==
    /\ pc = "return"
    /\ line = <<"D","T","S","T","A","R","T",";","t","z","i","d","=","E","t","c","/","G","M","T","+","1","0",";","X","-","A","=","1",":","2","0","2","4","0","1","0","1","T","1","2","0","0","0","0">>
    /\ opts = [targetTz |-> <<"E","u","r","o","p","e","/","Z","u","r","i","c","h">>, overrideExistingTz |-> TRUE]
    /\ result = <<"D","T","S","T","A","R","T",";","T","Z","I","D","=","E","u","r","o","p","e","/","Z","u","r","i","c","h",";","X","-","A","=","1",":","2","0","2","4","0","1","0","1","T","2","3","0","0","0","0">>

-----------------------------------------------------------------------------
(* A second transform of the first transform's output, under SpecDoc *)

\* ln is a recognized date-time line with a TZID parameter that names a zone
IsZoneQualified(ln) ==
    LET m == MatchDateTimeLine(ln)
    IN  m.m /\ HasNamedTzid(ParamsOf(m.params))

-----------------------------------------------------------------------------
(* Documents in which definition blocks, an event and a date-time line     *)
(* stand in every order                                                    *)

MaxBlockLines == 4

BlockLines ==
    {<<"B","E","G","I","N",":","V","T","I","M","E","Z","O","N","E">>, <<"E","N","D",":","V","T","I","M","E","Z","O","N","E">>, <<"T","Z","I","D",":","E","u","r","o","p","e","/","Z","u","r","i","c","h">>,
     <<"B","E","G","I","N",":","V","E","V","E","N","T">>, <<"D","T","S","T","A","R","T",":","2","0","2","4","0","1","0","1","T","1","2","0","0","0","0","Z">>}

BlockDocuments == UNION {[1..n -> BlockLines] : n \in 1..MaxBlockLines}

SpecBlock ==
    InitCall(BlockDocuments, {<<"E","u","r","o","p","e","/","Z","u","r","i","c","h">>, <<"U","T","C">>}) /\ [][CallTransformIcs]_vars

IsVtzMarker(ln) ==
    upperEquals(ln, <<"B","E","G","I","N",":","V","T","I","M","E","Z","O","N","E">>) \/ upperEquals(ln, <<"E","N","D",":","V","T","I","M","E","Z","O","N","E">>)

\* line i of ls stands inside a definition block: after an open marker with
\* no close marker between the two, and is no marker itself
InsideBlock(ls, i) ==
    /\ ~IsVtzMarker(ls[i])
    /\ \E b \in 1..(i - 1) :
        /\ upperEquals(ls[b], <<"B","E","G","I","N",":","V","T","I","M","E","Z","O","N","E">>)
        /\ \A k \in (b + 1)..(i - 1) : ~upperEquals(ls[k], <<"E","N","D",":","V","T","I","M","E","Z","O","N","E">>)

\* the document pass leaves the lines inside definition blocks as they are
\* and rewrites the recognized date-time lines outside them
PassSparesBlocks ==
    /\ Len(transformed) = Len(lines)
    /\ \A i \in 1..Len(lines) :
        IF InsideBlock(lines, i) \/ IsVtzMarker(lines[i]) THEN transformed[i] = lines[i]
        ELSE MatchDateTimeLine(lines[i]).m
             => transformed[i] = transformDateTimeLine(lines[i],
                    [targetTz |-> targetTz, overrideExistingTz |-> overrideExistingTz])

\* in the final output a date-time line inside a definition block has a TZID
\* parameter only if it is a line of the input
NoTzidAddedInsideBlocks ==
    \A j \in 1..Len(fixed) :
        (InsideBlock(fixed, j) /\ IsZoneQualified(fixed[j]))
        => \E i \in 1..Len(lines) : lines[i] = fixed[j]

\* C18: the pass spares the definition blocks, and no date-time
\* line inside a definition block of the final output carries a TZID
\* parameter that the transform added
C18_BlocksUntouched ==
    pc = "return" => PassSparesBlocks /\ NoTzidAddedInsideBlocks

-----------------------------------------------------------------------------
(* Documents of one event with a description of every length up to a bound *)

MaxDescLength == 160

DescDocuments ==
    {<<<<"B","E","G","I","N",":","V","E","V","E","N","T">>, <<"D","E","S","C","R","I","P","T","I","O","N",":">> \o Run("d", n), <<"E","N","D",":","V","E","V","E","N","T">>>> :
        n \in 1..MaxDescLength}

SpecDesc == InitCall(DescDocuments, {<<"E","u","r","o","p","e","/","Z","u","r","i","c","h">>}) /\ [][CallTransformIcs]_vars

\* C19: in the lines the normalizer hands to the folder, the first line of a
\* description, with its DESCRIPTION: prefix, and every continuation line,
\* with its leading space, is at most 75 characters long
C19_RepairedDescriptionFits ==
    pc = "return" =>
        \A j \in 1..Len(fixed) :
            (upperStartsWith(fixed[j], <<"D","E","S","C","R","I","P","T","I","O","N",":">>) \/ startsWith(fixed[j], <<" ">>))
            => Len(fixed[j]) <= FoldWidth

-----------------------------------------------------------------------------
(* The route GET /calendar.ics.  A query parameter is <<>> when it is not  *)
(* a string (absent) and <<text>> when it is the string text.  A handler   *)
(* invocation runs from one await to the next in one step; its constants   *)
(* (sourceUrl, targetTz, overrideExistingTz, ics) are its own.             *)

\* process.env.SOURCE_ICS_URL and process.env.TARGET_TZ are not set
DEFAULT_URL == <<>>

DEFAULT_TZ == <<"E","u","r","o","p","e","/","Z","u","r","i","c","h">>

\* typeof urlParam === "string" && urlParam.length > 0 ? urlParam : DEFAULT_URL
SourceUrlOf(urlParam) ==
    IF Len(urlParam) = 1 /\ Len(urlParam[1]) > 0 THEN urlParam ELSE DEFAULT_URL

\* isLikelyIana(tzParam) ? tzParam : DEFAULT_TZ
TargetOf(tzParam) ==
    IF Len(tzParam) = 1 /\ isLikelyIana(tzParam[1]) THEN tzParam[1] ELSE DEFAULT_TZ

\* typeof overrideParam === "string" ? overrideParam === "1" : true
OverrideOf(overrideParam) ==
    IF Len(overrideParam) = 1 THEN overrideParam[1] = <<"1">> ELSE TRUE

\* res.status(status)...send(body), after which the handler returns
Respond(rec, status, body) == [rec EXCEPT !.pc = "done", !.status = status, !.body = body]

\* the step of request r leaves it as rec
Update(r, rec) ==
    /\ reqs' = [reqs EXCEPT ![r] = rec]
    /\ UNCHANGED <<line, opts, result, ics, targetTz, overrideExistingTz, lines,
                   transformed, fixed, out, round, pc>>

\* from the start of the handler to the response 400 or to await fetch(sourceUrl)
Begin(r) ==
    /\ reqs[r].pc = "start"
    /\ IF Len(SourceUrlOf(reqs[r].query.url)) = 0
       THEN Update(r, Respond(reqs[r], 400,
                <<"M","i","s","s","i","n","g"," ","s","o","u","r","c","e"," ","I","C","S"," ","U","R","L","."," ","P","r","o","v","i","d","e"," ","?","u","r","l","=",".",".","."," ","o","r"," ","s","e","t"," ","S","O","U","R","C","E","_","I","C","S","_","U","R","L"," ","e","n","v",".">>))
       ELSE Update(r, [reqs[r] EXCEPT
                          !.sourceUrl = SourceUrlOf(reqs[r].query.url)[1],
                          !.targetTz = TargetOf(reqs[r].query.tz),
                          !.overrideExistingTz = OverrideOf(reqs[r].query.override),
                          !.fetches = @ + 1,
                          !.pc = "fetch"])

\* await fetch settles: the promise is rejected (the transport failed) and
\* the catch block answers; or it resolves with a response that is not ok;
\* or it resolves with one that is, and the handler goes on to await resp.text()
FetchSettles(r) ==
    /\ reqs[r].pc = "fetch"
    /\ \/ Update(r, Respond([reqs[r] EXCEPT !.upstream = "rejected"], 500,
                            <<"P","r","o","x","y"," ","e","r","r","o","r",":"," ","f","e","t","c","h"," ","f","a","i","l","e","d">>))
       \/ \E s \in {<<"4","0","4">>, <<"5","0","3">>} :
            Update(r, Respond([reqs[r] EXCEPT !.upstream = "not ok"], 502,
                              <<"U","p","s","t","r","e","a","m"," ","f","e","t","c","h"," ","f","a","i","l","e","d"," ","(">> \o s \o <<")">>))
       \/ Update(r, [reqs[r] EXCEPT !.upstream = "ok", !.pc = "text"])

\* the texts an upstream serves
UpstreamTexts ==
    {<<>>,
     <<"D","T","S","T","A","R","T",":","2","0","2","4","0","1","0","1","T","1","2","0","0","0","0","Z">>,
     <<"D","T","S","T","A","R","T",";","T","Z","I","D","=","A","m","e","r","i","c","a","/","N","e","w","_","Y","o","r","k",":","2","0","2","4","0","1","0","1","T","1","2","0","0","0","0">>,
     join(<<<<"B","E","G","I","N",":","V","E","V","E","N","T">>, <<"D","T","S","T","A","R","T",";","T","Z","I","D","=","A","m","e","r","i","c","a","/","N","e","w","_","Y","o","r","k",":","2","0","2","4","0","1","0","1","T","1","2","0","0","0","0">>,
            <<"D","T","E","N","D",":","2","0","2","4","0","1","0","1","T","1","3","0","0","0","0","Z">>, <<"E","N","D",":","V","E","V","E","N","T">>>>, CRLF)}

\* A faulty variant of OptionsOf, as if targetTz and overrideExistingTz were
\* kept in one place for all requests: each request reads what the request
\* with the highest number among those that have begun wrote
OptionsOfHighestBegun(rs, r) ==
    LET q == CHOOSE x \in DOMAIN rs :
                 /\ rs[x].fetches > 0
                 /\ \A y \in DOMAIN rs : rs[y].fetches > 0 => y <= x
    IN  [targetTz |-> rs[q].targetTz, overrideExistingTz |-> rs[q].overrideExistingTz]

\* the targetTz and overrideExistingTz that the invocation for request r holds
OptionsOf(rs, r) ==
    [targetTz |-> rs[r].targetTz, overrideExistingTz |-> rs[r].overrideExistingTz]

\* from const ics = await resp.text() to the response
WithText(r, rec, text, o) ==
    IF Len(text) = 0
    THEN Update(r, Respond(rec, 502, <<"U","p","s","t","r","e","a","m"," ","r","e","t","u","r","n","e","d"," ","e","m","p","t","y"," ","b","o","d","y">>))
    ELSE Update(r, Respond([rec EXCEPT !.ics = text], 200,
                           transformIcs(text, o.targetTz, o.overrideExistingTz).out))

\* await resp.text() settles: rejected, or resolved with the body text
TextSettles(r) ==
    /\ reqs[r].pc = "text"
    /\ \/ Update(r, Respond([reqs[r] EXCEPT !.upstream = "rejected"], 500,
                            <<"P","r","o","x","y"," ","e","r","r","o","r",":"," ","t","e","r","m","i","n","a","t","e","d">>))
       \/ \E text \in UpstreamTexts : WithText(r, reqs[r], text, OptionsOf(reqs, r))

NextRequest == \E r \in DOMAIN reqs : Begin(r) \/ FetchSettles(r) \/ TextSettles(r)

\* the requests ids have arrived, their queries drawn from queries
InitRequests(ids, queries) ==
    /\ reqs \in [ids -> {[query |-> q, pc |-> "start", sourceUrl |-> <<>>,
                            targetTz |-> <<>>, overrideExistingTz |-> FALSE,
                            fetches |-> 0, upstream |-> "none", ics |-> <<>>,
                            status |-> 0, body |-> <<>>] : q \in queries}]
    /\ line = <<>> /\ opts = <<>> /\ result = <<>>
    /\ ics = <<>> /\ targetTz = <<>> /\ overrideExistingTz = FALSE
    /\ lines = <<>> /\ transformed = <<>> /\ fixed = <<>> /\ out = <<>>
    /\ round = 0
    /\ pc = "idle"

(* One request, with every kind of query *)

Queries ==
    [url : {<<>>, <<<<>>>>, <<<<"h","t","t","p",":","/","/","u","/","a",".","i","c","s">>>>},
     tz : {<<>>, <<<<"E","t","c","/","G","M","T","+","1">>>>, <<<<"Z","u","r","i","c","h">>>>},
     override : {<<>>, <<<<"1">>>>, <<<<"0">>>>, <<<<"t","r","u","e">>>>, <<<<>>>>}]

SpecRequest == InitRequests({1}, Queries) /\ [][NextRequest]_vars

\* C15: a request whose upstream fetch did not succeed, because the upstream
\* answered without success or because the fetch itself failed, is answered
\* with status 502; and no request has fetched more than once
C15_UpstreamFaultsAnswer502 ==
    \A r \in DOMAIN reqs :
        /\ reqs[r].fetches <= 1
        /\ (reqs[r].pc = "done" /\ reqs[r].upstream \in {"rejected", "not ok"})
           => reqs[r].status = 502

\* C16: the text a request is answered with is the transform of the fetched
\* text that overrides existing TZID parameters when the request passed
\* override=1, and the transform that leaves them when it passed any other
\* value or no override parameter
C16_OverrideOnlyOnRequest ==
    \A r \in DOMAIN reqs :
        (reqs[r].pc = "done" /\ reqs[r].status = 200)
        => reqs[r].body = transformIcs(reqs[r].ics, reqs[r].targetTz,
                                       reqs[r].query.override = <<<<"1">>>>).out

(* Several requests at once, each with one of a few queries *)

MaxRequests == 2

ServerQueries ==
    {[url |-> <<<<"h","t","t","p",":","/","/","u","/","a",".","i","c","s">>>>, tz |-> <<>>, override |-> <<<<"0">>>>],
     [url |-> <<<<"h","t","t","p",":","/","/","u","/","b",".","i","c","s">>>>, tz |-> <<<<"E","t","c","/","G","M","T","+","1">>>>, override |-> <<<<"1">>>>]}

SpecServer == InitRequests(1..MaxRequests, ServerQueries) /\ [][NextRequest]_vars

\* the status and the text that answer a request with query q when it is
\* the only one, its upstream having done what (rejected, not ok, ok) and
\* served text
StatusAlone(q, what, text) ==
    IF Len(SourceUrlOf(q.url)) = 0 THEN 400
    ELSE IF what = "rejected" THEN 500
    ELSE IF what = "not ok" \/ Len(text) = 0 THEN 502
    ELSE 200

TextAlone(q, text) == transformIcs(text, TargetOf(q.tz), OverrideOf(q.override)).out

\* C17: whatever the other requests are doing and have done, a request that
\* has been answered has the status it has when it is the only request, and
\* with status 200 the text that the transform gives for its own fetched
\* text, its own target zone and its own override flag
C17_RequestsDoNotInterfere ==
    \A r \in DOMAIN reqs :
        reqs[r].pc = "done"
        => /\ reqs[r].status = StatusAlone(reqs[r].query, reqs[r].upstream, reqs[r].ics)
           /\ reqs[r].status = 200 => reqs[r].body = TextAlone(reqs[r].query, reqs[r].ics)

\* two requests with different queries have fetched the same text and each
\* has its own answer
C17_Witness ==
    /\ reqs[1].pc = "done" /\ reqs[1].status = 200
    /\ reqs[2].pc = "done" /\ reqs[2].status = 200
    /\ reqs[1].query # reqs[2].query
    /\ reqs[1].ics = <<"D","T","S","T","A","R","T",";","T","Z","I","D","=","A","m","e","r","i","c","a","/","N","e","w","_","Y","o","r","k",":","2","0","2","4","0","1","0","1","T","1","2","0","0","0","0">>
    /\ reqs[2].ics = reqs[1].ics
    /\ reqs[1].body # reqs[2].body

-----------------------------------------------------------------------------
(* Blocks nested inside an event, under SpecEvent *)

\* ln opens or closes a block
IsBlockMarker(ln) == upperStartsWith(ln, <<"B","E","G","I","N",":">>) \/ upperStartsWith(ln, <<"E","N","D",":">>)

\* lines b to e of ls are an alarm block: the open marker, lines that are no
\* markers, the close marker
IsSubBlock(ls, b, e) ==
    /\ b < e
    /\ upperEquals(ls[b], <<"B","E","G","I","N",":","V","A","L","A","R","M">>)
    /\ upperEquals(ls[e], <<"E","N","D",":","V","A","L","A","R","M">>)
    /\ \A k \in (b + 1)..(e - 1) : ~IsBlockMarker(ls[k])

\* lines j to j + n of ls stand inside an event: after an open marker of an
\* event with no close marker of an event between, and before a close marker
InsideEvent(ls, j, n) ==
    /\ \E s \in 1..(j - 1) :
        /\ ls[s] = <<"B","E","G","I","N",":","V","E","V","E","N","T">>
        /\ \A k \in (s + 1)..(j - 1) : ls[k] # <<"E","N","D",":","V","E","V","E","N","T">>
    /\ \E t \in (j + n + 1)..Len(ls) : ls[t] = <<"E","N","D",":","V","E","V","E","N","T">>

\* C21: an alarm block inside the event, as the normalizer receives it,
\* stands in the output in one piece (its open marker, its lines in their
\* order, its close marker, with nothing between them) and inside the event
C21_SubBlockIntact ==
    Returned1 =>
        \A b \in Indices(transformed) : \A e \in Indices(transformed) :
            IsSubBlock(transformed, b, e)
            => \E j \in Indices(fixed) :
                /\ j + (e - b) <= Len(fixed)
                /\ SubSeq(fixed, j, j + (e - b)) = SubSeq(transformed, b, e)
                /\ InsideEvent(fixed, j, e - b)

=============================================================================
